---- MODULE Spec2Model ----
(***************************************************************************)
(* Retrieval pipeline of the RFP knowledge-base assistant.                 *)
(*                                                                         *)
(*   - the chat-ai edge function (src/unnamed/part_004, lines 320-783):    *)
(*     authentication, query analysis, the retrieval cascade               *)
(*     vector -> enhanced_text -> basic_text with its confidence scores,   *)
(*     and the completion call;                                            *)
(*   - the nlp-processor edge function (src/unnamed/part_004, lines 1-319):*)
(*     the rule-based intent classifier;                                   *)
(*   - the documents table with its row-level security and the             *)
(*     search_documents_by_similarity function (supabase/migrations).      *)
(*                                                                         *)
(* Numbers: a similarity is in hundredths (an integer 0..100); a confidence *)
(* score is an exact fraction [num |-> n, den |-> d].                      *)
(***************************************************************************)
EXTENDS Integers, Sequences, FiniteSets, TLC

VARIABLES
  store,          \* public.documents: row id -> the row
  request,        \* the chat request: [authHeader, message]
  pc,             \* position of the chat-ai handler
  user,           \* the authenticated user (auth.getUser), or NoUser
  nlpAnalysis,    \* let nlpAnalysis: <<>> for null, or <<the analysis object>>
  vectorDocs,     \* const vectorDocs: ids of the rows the similarity rpc returned
  documents,      \* let documents: ids of the retrieved rows
  searchMethod,   \* let searchMethod
  confidence,     \* let confidence
  embedding,      \* embeddingResponse: "none", "ok", "not_ok", or "throws"
  completion,     \* the completion response: "none", "ok", "not_ok", or "throws"
  outcomes,       \* what each strategy's query came back with
  calls,          \* how often each external collaborator was called
  response,       \* the HTTP response of the handler
  errorMessage,   \* the error field of an error response
  conversations,  \* public.conversations: the rows [id, user_id]
  messages,       \* public.messages: the rows inserted
  currentConversationId, \* let currentConversationId ("" for undefined)
  text,           \* nlp-processor: the text under analysis
  intentResult,   \* nlp-processor: <<>> or <<the value classifyIntent returned>>
  keywordsResult, \* nlp-processor: <<>> or <<the value extractKeywords returned>>
  entitiesResult, \* nlp-processor: <<>> or <<the value extractEntities returned>>
  filtersResult,  \* nlp-processor: <<>> or <<[entities, filters]>> of one call
                  \* of extractSearchFilters
  analysisResult, \* nlp-processor: <<>> or <<[reply, analysis]>> of one call of
                  \* performAdvancedNLP
  upload,         \* upload-document: the state of one request
  runs            \* generate-embeddings: the state of each request

vars == <<store, request, pc, user, nlpAnalysis, vectorDocs, documents,
          searchMethod, confidence, embedding, completion, outcomes, calls,
          response, errorMessage, conversations, messages,
          currentConversationId, text, intentResult, keywordsResult,
          entitiesResult, filtersResult, analysisResult, upload, runs>>

chatVars == <<store, request, pc, user, nlpAnalysis, vectorDocs, documents,
              searchMethod, confidence, embedding, completion, outcomes, calls,
              response, errorMessage, conversations, messages,
              currentConversationId>>

persistVars == <<conversations, messages, currentConversationId>>

nlpVars == <<text, intentResult, keywordsResult, entitiesResult, filtersResult,
            analysisResult>>

docVars == <<upload, runs>>

NoUser == "nobody"

\* no upload-document and no generate-embeddings request
DocsIdle ==
  /\ upload = [pc |-> "idle"]
  /\ runs = <<>>

------------------------------------------------------------------------------
(* Exact fractions.                                                         *)

Rat(n, d) == [num |-> n, den |-> d]

RatLt(a, b) == a.num * b.den < b.num * a.den

RatLe(a, b) == a.num * b.den <= b.num * a.den

RatEq(a, b) == a.num * b.den = b.num * a.den

RatMin(a, b) == IF RatLt(b, a) THEN b ELSE a

------------------------------------------------------------------------------
(* String.prototype.toLowerCase and String.prototype.includes.              *)

UpperLetters == "ABCDEFGHIJKLMNOPQRSTUVWXYZ"

LowerLetters == "abcdefghijklmnopqrstuvwxyz"

LowerChar(c) ==
  IF \E i \in 1..Len(UpperLetters) : SubSeq(UpperLetters, i, i) = c
  THEN LET i == CHOOSE j \in 1..Len(UpperLetters) : SubSeq(UpperLetters, j, j) = c
       IN  SubSeq(LowerLetters, i, i)
  ELSE c

RECURSIVE toLowerCase(_)
toLowerCase(t) ==
  IF Len(t) = 0 THEN ""
  ELSE LowerChar(SubSeq(t, 1, 1)) \o toLowerCase(SubSeq(t, 2, Len(t)))

includes(t, p) ==
  \E i \in 1..(Len(t) - Len(p) + 1) : SubSeq(t, i, i + Len(p) - 1) = p

------------------------------------------------------------------------------
(* nlp-processor: intent classification.                                    *)

Intents ==
  <<"information_retrieval", "comparison", "summarization",
    "specific_search", "general_question">>

intentPatterns ==
  [information_retrieval |->
     <<"what is", "tell me about", "explain", "describe", "overview of",
       "information about", "details on", "help me understand", "how does",
       "what are the benefits">>,
   comparison |->
     <<"compare", "versus", "vs", "difference between", "better than",
       "similar to", "alternatives to", "choose between", "which is">>,
   summarization |->
     <<"summary", "summarize", "key points", "main points", "brief overview",
       "highlights", "in short", "tldr">>,
   specific_search |->
     <<"find documents", "search for", "look for", "show me documents",
       "examples of", "case studies about", "proposals for">>,
   general_question |->
     <<"how to", "best practices", "recommendations", "advice", "guidance",
       "should i", "can you help">>]

\* patterns.filter(pattern => lowerText.includes(pattern)).length
MatchCount(lowerText, intent) ==
  Cardinality({i \in 1..Len(intentPatterns[intent]) :
                 includes(lowerText, intentPatterns[intent][i])})

\* let bestMatch = { intent: 'general_question', confidence: 0.3 }
InitialBestMatch == [intent |-> "general_question", confidence |-> Rat(3, 10)]

\* the forEach body: one intent of the table against the best match so far
ClassifyStep(best, lowerText, intent) ==
  LET c == Rat(MatchCount(lowerText, intent), Len(intentPatterns[intent]))
  IN  IF RatLt(best.confidence, c)
      THEN [intent |-> intent, confidence |-> c]
      ELSE best

RECURSIVE ClassifyFrom(_, _, _)
ClassifyFrom(best, lowerText, k) ==
  IF k > Len(Intents) THEN best
  ELSE ClassifyFrom(ClassifyStep(best, lowerText, Intents[k]), lowerText, k + 1)

classifyIntentNoFloor(t) ==
  ClassifyFrom([intent |-> "general_question", confidence |-> Rat(0, 10)],
               toLowerCase(t), 1)

classifyIntent(t) == ClassifyFrom(InitialBestMatch, toLowerCase(t), 1)

------------------------------------------------------------------------------
(* nlp-processor: character classes of the regular expressions.  The texts  *)
(* of the model are written in ASCII letters, digits, '_', punctuation and  *)
(* the space as the only white space.                                       *)

Digits == "0123456789"

CharIn(c, chars) == \E i \in 1..Len(chars) : SubSeq(chars, i, i) = c

CharAt(t, i) == SubSeq(t, i, i)

IsUpper(c) == CharIn(c, UpperLetters)

IsLower(c) == CharIn(c, LowerLetters)

\* \s
IsSpace(c) == c = " "

\* \w
IsWord(c) == IsUpper(c) \/ IsLower(c) \/ CharIn(c, Digits) \/ c = "_"

\* \b between positions i - 1 and i of t
Boundary(t, i) ==
  LET before == i > 1 /\ i - 1 <= Len(t) /\ IsWord(CharAt(t, i - 1))
      after == i >= 1 /\ i <= Len(t) /\ IsWord(CharAt(t, i))
  IN  before # after

------------------------------------------------------------------------------
(* nlp-processor: extractKeywords.                                          *)

\* .replace(/[^\w\s]/g, ' ')
RECURSIVE replaceNonWord(_)
replaceNonWord(t) ==
  IF Len(t) = 0 THEN ""
  ELSE LET c == CharAt(t, 1)
       IN  (IF IsWord(c) \/ IsSpace(c) THEN c ELSE " ")
             \o replaceNonWord(SubSeq(t, 2, Len(t)))

\* the first position at or after i that holds no white space
RECURSIVE SkipSpace(_, _)
SkipSpace(t, i) ==
  IF i <= Len(t) /\ IsSpace(CharAt(t, i)) THEN SkipSpace(t, i + 1) ELSE i

\* .split(/\s+/): the pieces between the runs of white space, the empty piece
\* before a leading and after a trailing run included
RECURSIVE SplitFrom(_, _, _)
SplitFrom(t, i, piece) ==
  IF i > Len(t) THEN <<piece>>
  ELSE IF IsSpace(CharAt(t, i))
       THEN <<piece>> \o SplitFrom(t, SkipSpace(t, i), "")
       ELSE SplitFrom(t, i + 1, piece \o CharAt(t, i))

split(t) == SplitFrom(t, 1, "")

\* Array.prototype.join
RECURSIVE join(_, _)
join(words, sep) ==
  IF Len(words) = 0 THEN ""
  ELSE IF Len(words) = 1 THEN words[1]
       ELSE words[1] \o sep \o join(Tail(words), sep)

stopWords ==
  {"the", "and", "or", "but", "in", "on", "at", "to", "for", "of", "with",
   "by", "is", "are", "was", "were", "be", "been", "being", "have", "has",
   "had", "do", "does", "did", "will", "would", "could", "should", "may",
   "might", "can", "this", "that", "these", "those", "a", "an", "as"}

\* .filter(word => word.length > 2), then
\* .filter(word => !stopWords.has(word) && word.length > 2)
KeepKeyword(word) == Len(word) > 2 /\ word \notin stopWords

\* the text split into words before the punctuation is replaced
extractKeywordsSplitFirst(t) ==
  LET words == SelectSeq(split(toLowerCase(t)), KeepKeyword)
  IN  [i \in 1..Len(words) |-> replaceNonWord(words[i])]

extractKeywords(t) ==
  SelectSeq(split(replaceNonWord(toLowerCase(t))), KeepKeyword)

------------------------------------------------------------------------------
(* nlp-processor: extractEntities.                                          *)

domainKeywords ==
  [industries |->
     <<"healthcare", "finance", "financial services", "banking", "insurance",
       "manufacturing", "retail", "telecommunications", "telecom", "education",
       "government", "energy", "utilities", "automotive", "aerospace", "pharma",
       "pharmaceutical", "technology", "tech", "media", "entertainment">>,
   technologies |->
     <<"cloud", "azure", "aws", "gcp", "migration", "digital transformation",
       "ai", "artificial intelligence", "machine learning", "ml", "iot",
       "blockchain", "cybersecurity", "security", "data analytics", "big data",
       "crm", "erp", "salesforce", "microsoft", "oracle", "sap">>,
   documentTypes |->
     <<"rfp", "proposal", "case study", "win loss", "analysis", "report",
       "presentation", "white paper", "implementation", "strategy">>]

\* Object.entries(domainKeywords): the keywords, category by category
AllDomainKeywords ==
  domainKeywords.industries \o domainKeywords.technologies
    \o domainKeywords.documentTypes

InSeq(x, s) == \E i \in 1..Len(s) : s[i] = x

\* Set.prototype.add on a set kept in insertion order
SetAdd(s, x) == IF InSeq(x, s) THEN s ELSE Append(s, x)

RECURSIVE SetAddAll(_, _)
SetAddAll(s, xs) ==
  IF Len(xs) = 0 THEN s ELSE SetAddAll(SetAdd(s, Head(xs)), Tail(xs))

\* the end of the run of lower-case letters that starts at i, or i - 1
RECURSIVE LowerRunEnd(_, _)
LowerRunEnd(t, i) ==
  IF i <= Len(t) /\ IsLower(CharAt(t, i)) THEN LowerRunEnd(t, i + 1) ELSE i - 1

\* [A-Z][a-z]+ at i followed by \b: the position of its last letter, or 0
CapitalizedEnd(t, i) ==
  IF i <= Len(t) /\ IsUpper(CharAt(t, i))
  THEN LET e == LowerRunEnd(t, i + 1)
       IN  IF e > i /\ Boundary(t, e + 1) THEN e ELSE 0
  ELSE 0

\* (?:\s+[A-Z][a-z]+)*\b after a word that ends at e: the end of the match
RECURSIVE CapitalizedRunEnd(_, _)
CapitalizedRunEnd(t, e) ==
  LET p == SkipSpace(t, e + 1)
      n == CapitalizedEnd(t, p)
  IN  IF p > e + 1 /\ n > 0 THEN CapitalizedRunEnd(t, n) ELSE e

\* text.match(/\b[A-Z][a-z]+(?:\s+[A-Z][a-z]+)*\b/g) || []
RECURSIVE CapitalizedFrom(_, _)
CapitalizedFrom(t, i) ==
  IF i > Len(t) THEN <<>>
  ELSE IF Boundary(t, i) /\ CapitalizedEnd(t, i) > 0
       THEN LET e == CapitalizedRunEnd(t, CapitalizedEnd(t, i))
            IN  <<SubSeq(t, i, e)>> \o CapitalizedFrom(t, e + 1)
       ELSE CapitalizedFrom(t, i + 1)

capitalizedWords(t) == CapitalizedFrom(t, 1)

\* word.length > 2 && !word.match(/^(The|And|Or|But|In|On|At|To|For|Of|With|By)$/)
KeepCapitalized(word) ==
  /\ Len(word) > 2
  /\ word \notin {"The", "And", "Or", "But", "In", "On", "At", "To", "For",
                  "Of", "With", "By"}

\* the vocabulary looked up in the text as it was typed
extractEntitiesCaseSensitive(t) ==
  LET Found(keyword) == includes(t, toLowerCase(keyword))
  IN  SetAddAll(SelectSeq(AllDomainKeywords, Found),
                SelectSeq(capitalizedWords(t), KeepCapitalized))

extractEntities(t) ==
  LET lowerText == toLowerCase(t)
      Found(keyword) == includes(lowerText, toLowerCase(keyword))
  IN  SetAddAll(SelectSeq(AllDomainKeywords, Found),
                SelectSeq(capitalizedWords(t), KeepCapitalized))

------------------------------------------------------------------------------
(* nlp-processor: extractSearchFilters.  An object with optional fields is  *)
(* a function whose domain holds the names of the fields that are present.  *)

\* the field `name` with value `value` when `present`, no field otherwise
Field(name, present, value) == IF present THEN name :> value ELSE <<>>

Has(object, name) == name \in DOMAIN object

\* the alternatives of the timeframe pattern, in lower case
TimeWords == <<"recent", "latest">>

\* the text matches `word` at i, letter case ignored
MatchesAt(t, i, word) ==
  /\ i + Len(word) - 1 <= Len(t)
  /\ toLowerCase(SubSeq(t, i, i + Len(word) - 1)) = word

\* 202[0-9] | 201[0-9] | last\s+year | recent | latest at position i: the
\* position of the last character matched, or 0
TimeAlternativeEnd(t, i) ==
  IF /\ (MatchesAt(t, i, "202") \/ MatchesAt(t, i, "201"))
     /\ i + 3 <= Len(t)
     /\ CharIn(CharAt(t, i + 3), Digits)
  THEN i + 3
  ELSE IF /\ MatchesAt(t, i, "last")
          /\ SkipSpace(t, i + 4) > i + 4
          /\ MatchesAt(t, SkipSpace(t, i + 4), "year")
       THEN SkipSpace(t, i + 4) + 3
       ELSE IF \E k \in 1..Len(TimeWords) : MatchesAt(t, i, TimeWords[k])
            THEN i + 5
            ELSE 0

\* text.match(/\b(202[0-9]|201[0-9]|last\s+year|recent|latest)\b/gi):
\* <<>> for null, or <<timeMatches[0]>>
RECURSIVE TimeMatchFrom(_, _)
TimeMatchFrom(t, i) ==
  IF i > Len(t) THEN <<>>
  ELSE LET e == TimeAlternativeEnd(t, i)
       IN  IF e > 0 /\ Boundary(t, i) /\ Boundary(t, e + 1)
           THEN <<SubSeq(t, i, e)>>
           ELSE TimeMatchFrom(t, i + 1)

\* domainKeywords[category].some(term => term.toLowerCase() === entity.toLowerCase())
IsTermOf(category, entity) ==
  \E k \in 1..Len(domainKeywords[category]) :
    toLowerCase(domainKeywords[category][k]) = toLowerCase(entity)

\* a variant that sets every list field, matched or not
extractSearchFiltersAlways(t, entities) ==
  LET OfIndustries(entity) == IsTermOf("industries", entity)
      OfTechnologies(entity) == IsTermOf("technologies", entity)
      OfDocumentTypes(entity) == IsTermOf("documentTypes", entity)
      timeMatches == TimeMatchFrom(t, 1)
  IN  [industries |-> SelectSeq(entities, OfIndustries),
       technologies |-> SelectSeq(entities, OfTechnologies),
       documentTypes |-> SelectSeq(entities, OfDocumentTypes)]
        @@ Field("timeframe", timeMatches # <<>>,
                 IF timeMatches # <<>> THEN timeMatches[1] ELSE "")

extractSearchFilters(t, entities) ==
  LET OfIndustries(entity) == IsTermOf("industries", entity)
      OfTechnologies(entity) == IsTermOf("technologies", entity)
      OfDocumentTypes(entity) == IsTermOf("documentTypes", entity)
      industries == SelectSeq(entities, OfIndustries)
      technologies == SelectSeq(entities, OfTechnologies)
      documentTypes == SelectSeq(entities, OfDocumentTypes)
      timeMatches == TimeMatchFrom(t, 1)
  IN  Field("industries", Len(industries) > 0, industries)
        @@ Field("technologies", Len(technologies) > 0, technologies)
        @@ Field("documentTypes", Len(documentTypes) > 0, documentTypes)
        @@ Field("timeframe", timeMatches # <<>>,
                 IF timeMatches # <<>> THEN timeMatches[1] ELSE "")

------------------------------------------------------------------------------
(* nlp-processor: performAdvancedNLP.  The reply of the language model is   *)
(* one of: the fetch rejects, the status is not ok, response.json() rejects,*)
(* the body has no choices[0].message, the content is not JSON, the content *)
(* parses to null, the content parses to an object.                         *)

\* the statement of the try block at which each kind of reply throws
ThrowsAt ==
  [fetch_throws |-> "fetch", json_throws |-> "response.json",
   no_choices |-> "data.choices[0]", not_json |-> "JSON.parse",
   json_null |-> "aiAnalysis.intent"]

\* a try block that ends after the fetch
TryStatementsFetchOnly == {"fetch"}

\* the statements between `try {` (line 167) and `} catch` (line 221)
TryStatements ==
  {"fetch", "response.ok", "response.json", "data.choices[0]", "JSON.parse",
   "aiAnalysis.intent", "return"}

\* the objects the content of a reply parses to
AiAnalyses ==
  {[intent |-> "information_retrieval",
    keywords |-> <<"healthcare", "cloud", "migration">>,
    entities |-> <<"Healthcare">>,
    industries |-> <<"Healthcare">>],
   [intent |-> "comparison", confidence |-> Rat(1, 1),
    documentTypes |-> <<"rfp">>],
   [intent |-> "document_search", confidence |-> Rat(85, 1),
    keywords |-> <<"rfp">>]}

DelegateReplies ==
  {[kind |-> k] : k \in DOMAIN ThrowsAt \cup {"not_ok"}}
    \cup {[kind |-> "json_object", aiAnalysis |-> a] : a \in AiAnalyses}

\* the object built from the parsed content (lines 208-219), as JSON carries
\* it: a field whose value is undefined is left out
AiResult(aiAnalysis) ==
  LET intent == IF Has(aiAnalysis, "intent") /\ aiAnalysis.intent # ""
                THEN aiAnalysis.intent ELSE "general_question"
  IN  [intent |-> intent,
       confidence |-> IF Has(aiAnalysis, "confidence")
                         /\ aiAnalysis.confidence.num # 0
                      THEN aiAnalysis.confidence ELSE Rat(7, 10),
       keywords |-> IF Has(aiAnalysis, "keywords") THEN aiAnalysis.keywords
                    ELSE <<>>,
       entities |-> IF Has(aiAnalysis, "entities") THEN aiAnalysis.entities
                    ELSE <<>>,
       queryType |-> intent,
       searchFilters |->
         Field("industries", Has(aiAnalysis, "industries"),
               IF Has(aiAnalysis, "industries") THEN aiAnalysis.industries
               ELSE <<>>)
           @@ Field("technologies", Has(aiAnalysis, "technologies"),
                    IF Has(aiAnalysis, "technologies")
                    THEN aiAnalysis.technologies ELSE <<>>)
           @@ Field("documentTypes", Has(aiAnalysis, "documentTypes"),
                    IF Has(aiAnalysis, "documentTypes")
                    THEN aiAnalysis.documentTypes ELSE <<>>)]

\* the rule-based analysis (lines 225-238)
FallbackAnalysis(t) ==
  LET entities == extractEntities(t)
      best == classifyIntent(t)
  IN  [intent |-> best.intent,
       confidence |-> best.confidence,
       keywords |-> extractKeywords(t),
       entities |-> entities,
       queryType |-> best.intent,
       searchFilters |-> extractSearchFilters(t, entities)]

\* the value of a call that ends with an exception
Raised == [raised |-> TRUE]

performAdvancedNLP(t, reply) ==
  IF reply.kind = "json_object" THEN AiResult(reply.aiAnalysis)
  ELSE IF reply.kind \in DOMAIN ThrowsAt
            /\ ThrowsAt[reply.kind] \notin TryStatements
       THEN Raised
       ELSE FallbackAnalysis(t)

------------------------------------------------------------------------------
(* The texts the classifier is run on: up to MaxFragments fragments.        *)

MaxFragments == 3

Fragments ==
  {"Compare ", "X versus Y ", "which is better than ", "Tell me about ",
   "what is ", "summary ", "how to ", "search for ", "our healthcare work ",
   "asdkjasdlkj nonsense query "}

RECURSIVE TextsOf(_)
TextsOf(n) ==
  IF n = 0 THEN {""}
  ELSE LET shorter == TextsOf(n - 1)
       IN  shorter \cup {t \o f : t \in shorter, f \in Fragments}

NoResults ==
  /\ intentResult = <<>>
  /\ keywordsResult = <<>>
  /\ entitiesResult = <<>>
  /\ filtersResult = <<>>
  /\ analysisResult = <<>>

NlpInit ==
  /\ text \in TextsOf(MaxFragments)
  /\ NoResults

\* nlp-processor fallback path: const { intent, confidence } = classifyIntent(text)
Classify ==
  /\ intentResult = <<>>
  /\ intentResult' = <<classifyIntent(text)>>
  /\ UNCHANGED <<text, keywordsResult, entitiesResult, filtersResult,
                 analysisResult>>

------------------------------------------------------------------------------
(* The documents table.  A row is [owner, hasEmbedding, sim]: sim is the    *)
(* cosine similarity 1 - (embeddings <=> query_embedding) of the row to the *)
(* request's query embedding, in hundredths.  Rows are identified by their  *)
(* position; the table is unordered, so one ordering of each multiset of    *)
(* rows is enumerated.                                                      *)

MaxDocs == 4

Users == <<"alice", "bob">>

Embeddings ==
  <<[hasEmbedding |-> FALSE, sim |-> 0], [hasEmbedding |-> TRUE, sim |-> 30],
    [hasEmbedding |-> TRUE, sim |-> 60], [hasEmbedding |-> TRUE, sim |-> 100]>>

RowKinds == Len(Users) * Len(Embeddings)

RowOfKind(k) ==
  LET e == Embeddings[((k - 1) % Len(Embeddings)) + 1]
  IN  [owner |-> Users[((k - 1) \div Len(Embeddings)) + 1],
       hasEmbedding |-> e.hasEmbedding, sim |-> e.sim]

RECURSIVE KindSeqs(_)
KindSeqs(n) ==
  IF n = 0 THEN {<<>>}
  ELSE LET shorter == KindSeqs(n - 1)
       IN  shorter \cup
           UNION {{Append(s, k) : k \in {j \in 1..RowKinds :
                                           Len(s) = 0 \/ s[Len(s)] <= j}}
                  : s \in {q \in shorter : Len(q) = n - 1}}

Tables == {[i \in 1..Len(s) |-> RowOfKind(s[i])] : s \in KindSeqs(MaxDocs)}

\* policy "Users can view their own documents": USING (auth.uid() = user_id)
RlsVisible(uid) == {i \in DOMAIN store : store[i].owner = uid}

RECURSIVE SumSim(_)
SumSim(T) ==
  IF T = {} THEN 0
  ELSE LET i == CHOOSE j \in T : TRUE IN store[i].sim + SumSim(T \ {i})

Smaller(a, b) == IF a < b THEN a ELSE b

\* ORDER BY documents.embeddings <=> query_embedding LIMIT match_count:
\* the possible results, one for each way of breaking ties
NearestRows(matches, match_count) ==
  {T \in SUBSET matches :
     /\ Cardinality(T) = Smaller(match_count, Cardinality(matches))
     /\ \A i \in T, j \in matches \ T : store[i].sim >= store[j].sim}

\* the function before the ownership fix: no user_id condition
SimilarityRpcAnyOwner(uid, match_threshold, match_count) ==
  NearestRows({i \in DOMAIN store :
                 store[i].hasEmbedding /\ store[i].sim > match_threshold},
              match_count)

search_documents_by_similarity(uid, match_threshold, match_count) ==
  NearestRows({i \in DOMAIN store :
                 /\ store[i].hasEmbedding
                 /\ store[i].owner = uid
                 /\ store[i].sim > match_threshold},
              match_count)

------------------------------------------------------------------------------
(* The text columns of a row, and the text queries.  A row that carries the *)
(* text columns is [owner, hasEmbedding, sim, title, type, industry,        *)
(* summary, content, tags], a NULL summary or content being the empty       *)
(* string; the queries are evaluated on such a row.  A row without them     *)
(* stands for a row of any text: whether it satisfies a text filter is open.*)

Textual(row) == "title" \in DOMAIN row

\* CREATE TYPE document_type AS ENUM (...)
document_type == {"RFP", "Case Study", "Proposal", "Win/Loss Analysis"}

\* column ILIKE '%term%', for a term without the wildcards % and _
ilike(column, term) == includes(toLowerCase(column), toLowerCase(term))

\* Array.prototype.slice(0, n)
Take(s, n) == SubSeq(s, 1, Smaller(n, Len(s)))

LongerThanTwo(term) == Len(term) > 2

\* [...keywords.slice(0, 3), ...entities.slice(0, 2)].filter(term => term.length > 2)
searchTerms(analysis) ==
  SelectSeq(Take(analysis.keywords, 3) \o Take(analysis.entities, 2),
            LongerThanTwo)

\* title.ilike.%term%,summary.ilike.%term%,content.ilike.%term%,tags.cs.{term}
TermMatches(row, term) ==
  \/ ilike(row.title, term)
  \/ ilike(row.summary, term)
  \/ ilike(row.content, term)
  \/ InSeq(term, row.tags)

docTypeMapping ==
  [t \in {"rfp", "proposal", "case study", "win loss"} |->
     CASE t = "rfp" -> "RFP"
       [] t = "proposal" -> "Proposal"
       [] t = "case study" -> "Case Study"
       [] t = "win loss" -> "Win/Loss Analysis"]

\* docTypeMapping[type.toLowerCase()] || type
MappedType(type) ==
  IF toLowerCase(type) \in DOMAIN docTypeMapping
  THEN docTypeMapping[toLowerCase(type)]
  ELSE type

\* nlpAnalysis.searchFilters.<name> && nlpAnalysis.searchFilters.<name>.length > 0
FilterGiven(analysis, name) ==
  Has(analysis.searchFilters, name) /\ Len(analysis.searchFilters[name]) > 0

\* const mappedTypes = nlpAnalysis.searchFilters.documentTypes.map(...)
mappedTypes(analysis) ==
  IF FilterGiven(analysis, "documentTypes")
  THEN [k \in 1..Len(analysis.searchFilters.documentTypes) |->
          MappedType(analysis.searchFilters.documentTypes[k])]
  ELSE <<>>

\* the enhanced query is one the database accepts: a value compared with the
\* type column has to be a label of the enum
EnhancedQueryValid(analysis) ==
  \A k \in 1..Len(mappedTypes(analysis)) :
    mappedTypes(analysis)[k] \in document_type

\* the WHERE clause of the enhanced query
EnhancedMatches(row, analysis) ==
  /\ Len(searchTerms(analysis)) > 0 =>
       \E k \in 1..Len(searchTerms(analysis)) :
         TermMatches(row, searchTerms(analysis)[k])
  /\ FilterGiven(analysis, "industries") =>
       InSeq(row.industry, analysis.searchFilters.industries)
  /\ FilterGiven(analysis, "documentTypes") =>
       InSeq(row.type, mappedTypes(analysis))

\* .or(`title.ilike.%${message}%,summary.ilike.%${message}%,content.ilike.%${message}%`)
BasicMatches(row, message) ==
  \/ ilike(row.title, message)
  \/ ilike(row.summary, message)
  \/ ilike(row.content, message)

\* the rows with text columns that the WHERE clause of the enhanced query
\* selects
EnhancedMatching(analysis) ==
  {i \in DOMAIN store :
     Textual(store[i]) /\ EnhancedMatches(store[i], analysis)}

\* the rows with text columns that the WHERE clause of the basic query selects
BasicMatching(message) ==
  {i \in DOMAIN store : Textual(store[i]) /\ BasicMatches(store[i], message)}

\* supabaseWithAuth.from('documents').select(...)<filter>.limit(n), with
\* `matching` the rows the filter selects among those with text columns: the
\* possible results.  Without ORDER BY any `limit` of the matching rows can
\* come back.
TextQueryResults(uid, matching, limit) ==
  LET certain == RlsVisible(uid) \cap matching
      open == {i \in RlsVisible(uid) : ~Textual(store[i])}
  IN  {S \in SUBSET (certain \cup open) :
         /\ Cardinality(S) <= limit
         /\ certain \subseteq S \/ Cardinality(S) = limit}

------------------------------------------------------------------------------
(* chat-ai: constants of the retrieval cascade.                             *)

MATCH_THRESHOLD == 30

MATCH_COUNT == 8

ENHANCED_LIMIT == 8

BASIC_LIMIT == 5

\* the base confidence of an older revision
BaseConfidenceHalf == Rat(5, 10)

\* let confidence = 0.3
BaseConfidence == Rat(3, 10)

\* Math.min(0.95, 0.4 + (avgSimilarity * 0.6)) without the Math.min
VectorConfidenceUnclamped(T) ==
  Rat(400 * Cardinality(T) + 6 * SumSim(T), 1000 * Cardinality(T))

\* avgSimilarity = sum of (doc.similarity || 0) / documents.length
\* confidence = Math.min(0.95, 0.4 + (avgSimilarity * 0.6))
VectorConfidence(T) ==
  RatMin(Rat(95, 100),
         Rat(400 * Cardinality(T) + 6 * SumSim(T), 1000 * Cardinality(T)))

\* the count term subtracted instead of added
EnhancedConfidencePenalised(n, c) ==
  Rat((1400 - 60 * n) * c.den + 300 * c.num, 2000 * c.den)

\* confidence = 0.7 + (documents.length * 0.03) + (nlpAnalysis.confidence * 0.15),
\* for n documents and the analysis confidence c, a fraction
EnhancedConfidence(n, c) ==
  Rat((1400 + 60 * n) * c.den + 300 * c.num, 2000 * c.den)

\* a basic text result reported with the base confidence
BasicConfidenceFlat(n) == Rat(3, 10)

\* confidence = 0.5 + (documents.length * 0.05)
BasicConfidence(n) == Rat(500 + 50 * n, 1000)

\* the guards of steps 3 and 4 without the documents.length === 0 test
NextAfterVectorAlways(docs, analysis) ==
  IF analysis # <<>> THEN "enhanced" ELSE "basic"

\* if (documents.length === 0 && nlpAnalysis) ...; if (documents.length === 0) ...
NextAfterVector(docs, analysis) ==
  IF docs = {} /\ analysis # <<>> THEN "enhanced"
  ELSE IF docs = {} THEN "basic"
  ELSE "complete"

\* step 3 run again when it came back empty-handed
NextAfterEnhancedRetry(docs) ==
  IF docs = {} /\ calls.enhanced < 1 THEN "enhanced"
  ELSE IF docs = {} THEN "basic"
  ELSE "complete"

\* step 4 run whatever step 3 found
NextAfterEnhancedAlwaysBasic(docs) == "basic"

\* if (documents.length === 0) { basic text search }
NextAfterEnhanced(docs) == IF docs = {} THEN "basic" ELSE "complete"

\* the similarity search started without waiting for the embedding
NextAfterAnalysisSkipEmbedding == "vector"

\* after step 1 comes step 2, the embedding call
NextAfterAnalysis == "embed"

\* the conversation written before the completion call
NextAfterBasicPersist == "conversation"

\* after step 4 comes step 5, the completion call
NextAfterBasic == "complete"

\* the request checks without the message check
ValidationErrorNoMessageCheck(u, message) ==
  IF u = NoUser THEN "Invalid authentication" ELSE ""

\* if (userError || !user) throw ...; if (!message) throw ...: the message of
\* the error thrown, or "" when the request passes
ValidationError(u, message) ==
  IF u = NoUser THEN "Invalid authentication"
  ELSE IF message = "" THEN "Message is required"
       ELSE ""

\* only a rejected fetch ends the request, as for the embedding call
CompletionFatalThrowsOnly(outcome) == outcome = "throws"

\* if (!response.ok) throw new Error(`OpenAI API error: ${response.status}`)
CompletionFatal(outcome) == outcome # "ok"

------------------------------------------------------------------------------
(* chat-ai: the request handler, one action per awaited call.               *)

NoCalls ==
  [auth |-> 0, nlp |-> 0, embedding |-> 0, vector |-> 0, enhanced |-> 0,
   basic |-> 0, completion |-> 0, persist |-> 0]

Called(what) == [calls EXCEPT ![what] = @ + 1]

\* "none": not run; "error": the query failed; "empty" / "rows": its result
NoOutcomes == [vector |-> "none", enhanced |-> "none", basic |-> "none"]

Outcome(strategy, rows) ==
  [outcomes EXCEPT ![strategy] = IF rows = {} THEN "empty" ELSE "rows"]

Errored(strategy) == [outcomes EXCEPT ![strategy] = "error"]

\* the query of end-to-end scenarios 1 and 2
ScenarioQuery == "Tell me about our healthcare cloud migration work"

\* the conversations table before the request: one conversation of alice
StoredConversations == {[id |-> "c1", user_id |-> "alice"]}

\* the id the database gives the next conversation row
NewConversationId == "c2"

\* the conversationId of a request body: none, or the stored conversation
ConversationIds == {"", "c1"}

\* the chat requests: with or without an Authorization header, with or
\* without a message, with or without a conversationId
Requests ==
  {[authHeader |-> h, message |-> m, conversationId |-> c] :
     h \in BOOLEAN, m \in {"", ScenarioQuery}, c \in ConversationIds}

\* the queries put to a table whose rows carry their text
TextQueries ==
  {ScenarioQuery, "Hi", "show me the strategy report", "RFP for Azure"}

\* const analysis = await performAdvancedNLP(text) of the nlp-processor
\* handler, for each message of the model and each reply of the language model
nlpProcessor ==
  [message \in {""} \cup TextQueries |->
     [reply \in DelegateReplies |-> performAdvancedNLP(message, reply)]]

\* the handler before its first statement, for a table and a request
HandlerStart ==
  /\ pc = "start"
  /\ user = NoUser
  /\ nlpAnalysis = <<>>
  /\ vectorDocs = {}
  /\ documents = {}
  /\ searchMethod = "fallback"
  /\ confidence = BaseConfidence
  /\ embedding = "none"
  /\ completion = "none"
  /\ outcomes = NoOutcomes
  /\ calls = NoCalls
  /\ response = "none"
  /\ errorMessage = ""
  /\ conversations = StoredConversations
  /\ messages = {}
  /\ currentConversationId = ""
  /\ text = ""
  /\ NoResults
  /\ DocsIdle

Init ==
  /\ store \in Tables
  /\ request \in Requests
  /\ HandlerStart

\* an error response: { error: error.message } with status 500
Fail(message) ==
  /\ pc' = "done"
  /\ response' = "error"
  /\ errorMessage' = message

\* OPTIONS preflight, the API key check and the Authorization header check
Receive ==
  /\ pc = "start"
  /\ \E method \in {"OPTIONS", "POST"}, keyFound \in BOOLEAN :
       IF method = "OPTIONS"
       THEN pc' = "done" /\ response' = "cors" /\ UNCHANGED errorMessage
       ELSE IF ~keyFound THEN Fail("OpenAI API key not configured")
       ELSE IF ~request.authHeader THEN Fail("Authentication required")
       ELSE pc' = "auth" /\ UNCHANGED <<response, errorMessage>>
  /\ UNCHANGED <<store, request, user, nlpAnalysis, vectorDocs, documents,
                 searchMethod, confidence, embedding, completion, outcomes,
                 calls, nlpVars, docVars,
                 persistVars>>

\* supabase.auth.getUser(token), then req.json() and the message check
GetUser ==
  /\ pc = "auth"
  /\ calls' = Called("auth")
  /\ \E u \in {Users[i] : i \in DOMAIN Users} \cup {NoUser} :
       IF ValidationError(u, request.message) # ""
       THEN Fail(ValidationError(u, request.message)) /\ UNCHANGED user
       ELSE pc' = "nlp" /\ user' = u /\ UNCHANGED <<response, errorMessage>>
  /\ UNCHANGED <<store, request, nlpAnalysis, vectorDocs, documents,
                 searchMethod, confidence, embedding, completion, outcomes,
                 nlpVars, docVars,
                 persistVars>>

\* a payload of the invocation that lacks the fields of an analysis
EmptyPayload == <<>>

\* step 1: functions.invoke('nlp-processor', { body: { text: message } }).
\* An error (the function answered 500) or a throw leaves nlpAnalysis null;
\* otherwise nlpAnalysis is the data, which is what performAdvancedNLP
\* returned; data without a keywords array makes line 433 throw
InvokeNlp ==
  /\ pc = "nlp"
  /\ calls' = Called("nlp")
  /\ \/ /\ nlpAnalysis' = <<>>
        /\ pc' = NextAfterAnalysis
        /\ UNCHANGED <<response, errorMessage>>
     \/ /\ \E reply \in DelegateReplies :
             LET data == nlpProcessor[request.message][reply]
             IN  nlpAnalysis' = IF data = Raised THEN <<>> ELSE <<data>>
        /\ pc' = NextAfterAnalysis
        /\ UNCHANGED <<response, errorMessage>>
     \/ /\ nlpAnalysis' = <<EmptyPayload>>
        /\ Fail("Cannot read properties of undefined (reading 'length')")
  /\ UNCHANGED <<store, request, user, vectorDocs, documents, searchMethod,
                 confidence, embedding, completion, outcomes, nlpVars, docVars,
                 persistVars>>

\* step 2: fetch('https://api.openai.com/v1/embeddings'); the call is outside
\* every inner try, so a rejected fetch reaches the outer catch
FetchEmbedding ==
  /\ pc = "embed"
  /\ calls' = Called("embedding")
  /\ \E outcome \in {"ok", "not_ok", "throws"} :
       /\ embedding' = outcome
       /\ CASE outcome = "ok" ->
                 pc' = "vector" /\ UNCHANGED <<response, errorMessage>>
            [] outcome = "not_ok" ->
                 /\ pc' = NextAfterVector(documents, nlpAnalysis)
                 /\ UNCHANGED <<response, errorMessage>>
            [] outcome = "throws" -> Fail("error sending request")
  /\ UNCHANGED <<store, request, user, nlpAnalysis, vectorDocs, documents,
                 searchMethod, confidence, completion, outcomes, nlpVars, docVars,
                 persistVars>>

\* if (embeddingResponse.ok) { try { ... rpc('search_documents_by_similarity') } }
VectorSearch ==
  /\ pc = "vector"
  /\ \/ \* embeddingResponse.json() or data[0].embedding throws: caught, no rpc
        /\ outcomes' = Errored("vector")
        /\ UNCHANGED <<calls, vectorDocs, documents, searchMethod, confidence>>
     \/ \* vectorError
        /\ calls' = Called("vector")
        /\ outcomes' = Errored("vector")
        /\ UNCHANGED <<vectorDocs, documents, searchMethod, confidence>>
     \/ /\ calls' = Called("vector")
        /\ \E T \in search_documents_by_similarity(user, MATCH_THRESHOLD, MATCH_COUNT) :
             /\ vectorDocs' = T
             /\ documents' = T
             /\ outcomes' = Outcome("vector", T)
             /\ confidence' = IF T # {} THEN VectorConfidence(T) ELSE confidence
        /\ searchMethod' = "vector"
  /\ pc' = NextAfterVector(documents', nlpAnalysis)
  /\ UNCHANGED <<store, request, user, nlpAnalysis, embedding, completion,
                 response, errorMessage, nlpVars, docVars,
                 persistVars>>

\* step 3: NLP-enhanced text search
EnhancedSearch ==
  /\ pc = "enhanced"
  /\ calls' = Called("enhanced")
  /\ \/ \* enhancedSearchError
        /\ outcomes' = Errored("enhanced")
        /\ UNCHANGED <<documents, searchMethod, confidence>>
     \/ /\ EnhancedQueryValid(nlpAnalysis[1])
        /\ \E S \in TextQueryResults(
                      user, EnhancedMatching(nlpAnalysis[1]),
                      ENHANCED_LIMIT) :
             /\ documents' = S
             /\ outcomes' = Outcome("enhanced", S)
             /\ confidence' =
                  IF S # {}
                  THEN EnhancedConfidence(Cardinality(S), nlpAnalysis[1].confidence)
                  ELSE confidence
        /\ searchMethod' = "enhanced_text"
  /\ pc' = NextAfterEnhanced(documents')
  /\ UNCHANGED <<store, request, user, nlpAnalysis, vectorDocs, embedding,
                 completion, response, errorMessage, nlpVars, docVars,
                 persistVars>>

\* step 4: basic text search
BasicSearch ==
  /\ pc = "basic"
  /\ calls' = Called("basic")
  /\ \/ \* searchError
        /\ outcomes' = Errored("basic")
        /\ UNCHANGED <<documents, searchMethod, confidence>>
     \/ /\ \E S \in TextQueryResults(
                      user, BasicMatching(request.message), BASIC_LIMIT) :
             /\ documents' = S
             /\ outcomes' = Outcome("basic", S)
             /\ confidence' =
                  IF S # {} THEN BasicConfidence(Cardinality(S)) ELSE confidence
        /\ searchMethod' = "basic_text"
  /\ pc' = NextAfterBasic
  /\ UNCHANGED <<store, request, user, nlpAnalysis, vectorDocs, embedding,
                 completion, response, errorMessage, nlpVars, docVars,
                 persistVars>>

\* the insert policy of messages: WITH CHECK (EXISTS (SELECT 1 FROM
\* conversations WHERE id = messages.conversation_id)), without the owner test
MessageInsertAllowedAnyOwner(uid, conversation_id) ==
  \E c \in conversations : c.id = conversation_id

\* policy "Users can create messages in their conversations": WITH CHECK
\* (EXISTS (SELECT 1 FROM conversations WHERE conversations.id =
\* messages.conversation_id AND conversations.user_id = auth.uid()))
MessageInsertAllowed(uid, conversation_id) ==
  \E c \in conversations : c.id = conversation_id /\ c.user_id = uid

\* let currentConversationId = conversationId; if (!currentConversationId) {
\* create new conversation }
NextAfterCompletion(conversationId) ==
  IF conversationId = "" THEN "conversation" ELSE "user_msg"

\* step 5: fetch('https://api.openai.com/v1/chat/completions'), once; a
\* response that is not ok is thrown to the outer catch, and so is a rejected
\* fetch or a body without choices[0].message
Complete ==
  /\ pc = "complete"
  /\ calls' = Called("completion")
  /\ \E outcome \in {"ok", "not_ok", "throws"} :
       /\ completion' = outcome
       /\ IF CompletionFatal(outcome)
          THEN /\ Fail(IF outcome = "not_ok" THEN "OpenAI API error: 500"
                       ELSE "error sending request")
               /\ UNCHANGED currentConversationId
          ELSE /\ pc' = NextAfterCompletion(request.conversationId)
               /\ currentConversationId' = request.conversationId
               /\ UNCHANGED <<response, errorMessage>>
  /\ UNCHANGED <<store, request, user, nlpAnalysis, vectorDocs, documents,
                 searchMethod, confidence, embedding, outcomes, conversations,
                 messages, nlpVars,
                 docVars>>

\* from('conversations').insert({ title, user_id: user.id }).select().single();
\* convError is thrown
CreateConversation ==
  /\ pc = "conversation"
  /\ calls' = Called("persist")
  /\ \/ /\ Fail("new row violates row-level security policy")
        /\ UNCHANGED <<conversations, currentConversationId>>
     \/ /\ conversations' =
             conversations \cup {[id |-> NewConversationId, user_id |-> user]}
        /\ currentConversationId' = NewConversationId
        /\ pc' = "user_msg"
        /\ UNCHANGED <<response, errorMessage>>
  /\ UNCHANGED <<store, request, user, nlpAnalysis, vectorDocs, documents,
                 searchMethod, confidence, embedding, completion, outcomes,
                 messages, nlpVars,
                 docVars>>

\* from('messages').insert({ conversation_id, type: 'user', content, user_id });
\* userMsgError is logged
InsertUserMessage ==
  /\ pc = "user_msg"
  /\ calls' = Called("persist")
  /\ \/ \* userMsgError
        UNCHANGED messages
     \/ /\ MessageInsertAllowed(user, currentConversationId)
        /\ messages' =
             messages \cup {[conversation_id |-> currentConversationId,
                             type |-> "user", user_id |-> user]}
  /\ pc' = "bot_msg"
  /\ UNCHANGED <<store, request, user, nlpAnalysis, vectorDocs, documents,
                 searchMethod, confidence, embedding, completion, outcomes,
                 response, errorMessage, conversations, currentConversationId,
                 nlpVars,
                 docVars>>

\* from('messages').insert({ conversation_id, type: 'bot', content, sources,
\* confidence, user_id }); botMsgError is logged; then the 200 response with
\* { response, sources, conversationId, confidence, nlpAnalysis }
InsertBotMessage ==
  /\ pc = "bot_msg"
  /\ calls' = Called("persist")
  /\ \/ \* botMsgError
        UNCHANGED messages
     \/ /\ MessageInsertAllowed(user, currentConversationId)
        /\ messages' =
             messages \cup {[conversation_id |-> currentConversationId,
                             type |-> "bot", user_id |-> user,
                             sources |-> documents, confidence |-> confidence]}
  /\ pc' = "done"
  /\ response' = "ok"
  /\ UNCHANGED <<store, request, user, nlpAnalysis, vectorDocs, documents,
                 searchMethod, confidence, embedding, completion, outcomes,
                 errorMessage, conversations, currentConversationId, nlpVars,
                 docVars>>

Next ==
  \/ Receive
  \/ GetUser
  \/ InvokeNlp
  \/ FetchEmbedding
  \/ VectorSearch
  \/ EnhancedSearch
  \/ BasicSearch
  \/ Complete
  \/ CreateConversation
  \/ InsertUserMessage
  \/ InsertBotMessage

Spec == Init /\ [][Next]_vars

\* every awaited call of the handler eventually returns
FairSpec == Spec /\ WF_vars(Next)

------------------------------------------------------------------------------
(* The handler over tables whose rows carry their text, as upload-document  *)
(* stores them: summary is the head of content, tags are the lower-cased    *)
(* industry, type and client.                                               *)

MaxTextDocs == 2

Uploaded(owner, hasEmbedding, sim, title, type, client, industry, content) ==
  [owner |-> owner, hasEmbedding |-> hasEmbedding, sim |-> sim,
   title |-> title, type |-> type, industry |-> industry,
   summary |-> content, content |-> content,
   tags |-> <<toLowerCase(industry), toLowerCase(type), toLowerCase(client)>>]

\* the document of end-to-end scenarios 1 and 2, and three more
TextRows ==
  <<Uploaded("alice", TRUE, 60, "Healthcare Cloud Migration RFP Response",
             "RFP", "MedCenter Corp", "Healthcare",
             "Cloud migration plan for a hospital group"),
    Uploaded("alice", FALSE, 0, "Meeting notes", "Proposal", "Acme",
             "healthcare",
             "They said: tell me about our healthcare cloud migration work"),
    Uploaded("alice", FALSE, 0, "Retail CRM Rollout", "Case Study", "Shopco",
             "Retail", "How the CRM went live in 2024"),
    Uploaded("bob", TRUE, 60, "Healthcare Data Platform Proposal", "Proposal",
             "Clinic Group", "Healthcare", "Azure data platform for clinics")>>

\* the rows of TextRows numbered from k on, each taken or left out, at most
\* n of them taken
RECURSIVE RowChoices(_, _)
RowChoices(k, n) ==
  IF k > Len(TextRows) \/ n = 0 THEN {<<>>}
  ELSE RowChoices(k + 1, n)
         \cup {<<TextRows[k]>> \o rest : rest \in RowChoices(k + 1, n - 1)}

TextTables == RowChoices(1, MaxTextDocs)

TextRequests ==
  {[authHeader |-> TRUE, message |-> m, conversationId |-> c] :
     m \in TextQueries, c \in ConversationIds}

TextInit ==
  /\ store \in TextTables
  /\ request \in TextRequests
  /\ HandlerStart

TextSpec == TextInit /\ [][Next]_vars

------------------------------------------------------------------------------
(* Properties of the retrieval cascade.                                     *)

\* the retrieval stage is over: the handler is at or past the completion call
RetrievalDone ==
  pc \in {"complete", "conversation", "user_msg", "bot_msg"}
    \/ calls.completion > 0

OtherUsers == {Users[i] : i \in DOMAIN Users} \ {user}

\* C1: whenever the vector similarity search returned at least one document,
\* neither the NLP-enhanced search nor the basic search is ever executed, and
\* the result carries method 'vector'.
C1_VectorHitStopsCascade ==
  vectorDocs # {} =>
    /\ calls.enhanced = 0
    /\ calls.basic = 0
    /\ outcomes.enhanced = "none"
    /\ outcomes.basic = "none"
    /\ searchMethod = "vector"

\* a request with an analysis (so that step 3 was eligible) answered from a
\* vector hit
C1_Witness ==
  /\ response = "ok"
  /\ vectorDocs # {}
  /\ nlpAnalysis # <<>>
  /\ calls.vector = 1

\* C2: no retrieval performed for a user ever returns a document owned by
\* another user, through the rpc or through either text search.
C2_OnlyOwnDocuments ==
  /\ \A i \in documents : store[i].owner = user
  /\ \A i \in vectorDocs : store[i].owner = user

\* a vector result while another user's document is more similar to the query
\* than every returned one
C2_Witness ==
  /\ searchMethod = "vector"
  /\ documents # {}
  /\ \E j \in DOMAIN store :
       /\ store[j].owner \in OtherUsers
       /\ store[j].hasEmbedding
       /\ \A i \in documents : store[j].sim > store[i].sim

\* C3 (as claimed): after any failure of the embedding call, by status or by
\* a throw, no vector search is made and the request ends only at or after
\* the completion stage.
C3_EmbeddingFailureNotFatal ==
  embedding \in {"not_ok", "throws"} =>
    /\ calls.vector = 0
    /\ pc = "done" => calls.completion > 0

\* C4 (as claimed): when all three strategies returned zero documents the
\* result is empty with method 'none' and confidence 0.3.
C4_EmptyResultIsNone ==
  (\A strategy \in DOMAIN outcomes : outcomes[strategy] = "empty") =>
    /\ documents = {}
    /\ searchMethod = "none"
    /\ RatEq(confidence, Rat(3, 10))

\* the tag of the last strategy whose query returned without an error
LastCompletedMethod ==
  IF outcomes.basic = "empty" THEN "basic_text"
  ELSE IF outcomes.enhanced = "empty" THEN "enhanced_text"
  ELSE IF outcomes.vector = "empty" THEN "vector"
  ELSE "fallback"

\* C4 (amended): when every strategy came back with zero documents the result
\* is empty with confidence exactly 0.3, and the method is the tag of the last
\* strategy whose query returned without error ('basic_text' when the basic
\* search returned zero rows), or 'fallback' when none did; never 'none'.
C4_EmptyResultKeepsBase ==
  (RetrievalDone /\ documents = {}) =>
    /\ RatEq(confidence, Rat(3, 10))
    /\ searchMethod = LastCompletedMethod
    /\ searchMethod # "none"

\* all three strategies ran and each returned zero rows
C4_Witness ==
  /\ response = "ok"
  /\ documents = {}
  /\ outcomes = [vector |-> "empty", enhanced |-> "empty", basic |-> "empty"]

\* C5: once a request has passed validation the cascade always finishes, and
\* each of the three strategies is attempted at most once.
C5_CascadeTerminates ==
  /\ [](pc = "nlp" => <>(RetrievalDone \/ pc = "done"))
  /\ [](calls.vector <= 1 /\ calls.enhanced <= 1 /\ calls.basic <= 1)

\* all three strategies were attempted, two of them failing
C5_Witness ==
  /\ pc = "complete"
  /\ calls.vector = 1 /\ calls.enhanced = 1 /\ calls.basic = 1
  /\ outcomes.vector = "error" /\ outcomes.enhanced = "error"

\* the confidence the strategy named by `method` reports for the result set D
ConfidenceFor(method, D) ==
  CASE method = "vector" -> VectorConfidence(D)
    [] method = "enhanced_text" ->
         EnhancedConfidence(Cardinality(D), nlpAnalysis[1].confidence)
    [] method = "basic_text" -> BasicConfidence(Cardinality(D))
    [] OTHER -> BaseConfidence

\* C8 (as claimed): for each of the three strategies, the confidence reported
\* for a result set is never lower than the one the same strategy reports for
\* a smaller set that it extends.
C8_MoreDocumentsNeverLower ==
  (RetrievalDone /\ documents # {}) =>
    \A D \in (SUBSET documents) \ {{}} :
      RatLe(ConfidenceFor(searchMethod, D), confidence)

\* the mean similarity of D is at most that of E
MeanSimLe(D, E) == SumSim(D) * Cardinality(E) <= SumSim(E) * Cardinality(D)

\* C8 (amended): for the enhanced and the basic text search, extending a
\* result set never lowers the confidence; for the vector search it never
\* lowers it provided the extension does not lower the mean similarity.
C8_TextCountMonotone ==
  (RetrievalDone /\ documents # {}) =>
    \A D \in (SUBSET documents) \ {{}} :
      (searchMethod = "vector" => MeanSimLe(D, documents)) =>
        RatLe(ConfidenceFor(searchMethod, D), confidence)

\* an enhanced text result of several documents
C8_Witness ==
  /\ pc = "complete"
  /\ searchMethod = "enhanced_text"
  /\ Cardinality(documents) >= 3

\* C9 (as claimed): the confidence of the NLP-enhanced search is
\* 0.7 + n*0.03 + analysis.confidence*0.15 clamped to 0.95, so it never
\* exceeds 0.95 for an analysis confidence within [0,1].
C9_EnhancedConfidenceClamped ==
  (/\ searchMethod = "enhanced_text" /\ documents # {}
   /\ RatLe(Rat(0, 1), nlpAnalysis[1].confidence)
   /\ RatLe(nlpAnalysis[1].confidence, Rat(1, 1))) =>
    LET c == nlpAnalysis[1].confidence
    IN  /\ RatLe(confidence, Rat(95, 100))
        /\ RatEq(confidence,
                 RatMin(Rat(95, 100),
                        Rat((1400 + 60 * Cardinality(documents)) * c.den
                              + 300 * c.num, 2000 * c.den)))

\* C10: whenever the vector search returned at least one document the
\* confidence is min(0.95, 0.4 + avg_similarity*0.6) and so lies in
\* [0.4, 0.95].  With n documents of similarity sum s (hundredths),
\* 1000*n*confidence = min(950*n, 400*n + 6*s).
C10_VectorConfidenceFormula ==
  vectorDocs # {} =>
    LET n == Cardinality(vectorDocs)
        s == SumSim(vectorDocs)
    IN  /\ documents = vectorDocs
        /\ confidence.num * 1000 * n
             = confidence.den * Smaller(950 * n, 400 * n + 6 * s)
        /\ RatLe(Rat(4, 10), confidence)
        /\ RatLe(confidence, Rat(95, 100))

\* a vector result whose mean similarity is high enough for the 0.95 cap
C10_Witness ==
  /\ response = "ok"
  /\ Cardinality(vectorDocs) >= 2
  /\ 400 * Cardinality(vectorDocs) + 6 * SumSim(vectorDocs)
       > 950 * Cardinality(vectorDocs)

------------------------------------------------------------------------------
(* Properties of the text searches, over tables whose rows carry their text.*)

\* the industry, technology and document-type terms that occur in the message
DomainTermsOf(message) ==
  LET Occurs(keyword) == includes(toLowerCase(message), keyword)
  IN  SelectSeq(AllDomainKeywords, Occurs)

\* the message names domain terms, and the title, summary or content of the
\* row contains each of them, letter case ignored
ContainsDomainTerms(row, message) ==
  /\ Len(DomainTermsOf(message)) > 0
  /\ \A k \in 1..Len(DomainTermsOf(message)) :
       \/ ilike(row.title, DomainTermsOf(message)[k])
       \/ ilike(row.summary, DomainTermsOf(message)[k])
       \/ ilike(row.content, DomainTermsOf(message)[k])

\* C11 (as claimed): when the embedding call failed, the analysis step gave
\* an analysis and the text queries ran without error, every document of the
\* caller whose title, summary or content contains the domain terms of the
\* query is in the result, and the method is enhanced_text or basic_text.
C11_TextFallbackFindsDocument ==
  (/\ RetrievalDone
   /\ embedding = "not_ok"
   /\ nlpAnalysis # <<>>
   /\ outcomes.enhanced # "error"
   /\ outcomes.basic # "error") =>
    \A i \in RlsVisible(user) :
      ContainsDomainTerms(store[i], request.message) =>
        /\ i \in documents
        /\ searchMethod \in {"enhanced_text", "basic_text"}

\* C17 (as claimed): the NLP-enhanced search is attempted only after a vector
\* search without result and with an analysis whose keywords and entities
\* yield at least one search term.
C17_EnhancedOnlyWithTerms ==
  calls.enhanced > 0 =>
    /\ vectorDocs = {}
    /\ nlpAnalysis # <<>>
    /\ Len(searchTerms(nlpAnalysis[1])) > 0

\* C18 (as claimed): when the analysis carries a documentTypes filter, every
\* value the enhanced search compares the type column with is one of the
\* four document types, and every returned document has one of these types.
C18_MappedTypesAreDocumentTypes ==
  (calls.enhanced > 0 /\ FilterGiven(nlpAnalysis[1], "documentTypes")) =>
    /\ \A k \in 1..Len(mappedTypes(nlpAnalysis[1])) :
         mappedTypes(nlpAnalysis[1])[k] \in document_type
    /\ searchMethod = "enhanced_text" =>
         \A i \in documents : InSeq(store[i].type, mappedTypes(nlpAnalysis[1]))

------------------------------------------------------------------------------
(* Properties of the order of the stages and of the strategy selection.     *)

\* the number of calls made so far
CallsMade ==
  calls.auth + calls.nlp + calls.embedding + calls.vector + calls.enhanced
    + calls.basic + calls.completion + calls.persist

\* each call has been issued after the calls of the stages before it have
\* returned
StagesInOrder ==
  /\ calls.embedding > 0 => calls.nlp = 1
  /\ calls.vector > 0 => calls.embedding = 1 /\ embedding = "ok"
  /\ calls.enhanced > 0 =>
       /\ calls.embedding = 1
       /\ embedding = "ok" => outcomes.vector # "none"
  /\ calls.basic > 0 =>
       /\ calls.embedding = 1
       /\ embedding = "ok" => outcomes.vector # "none"
       /\ nlpAnalysis # <<>> => outcomes.enhanced # "none"
  /\ calls.completion > 0 =>
       /\ calls.embedding = 1
       /\ documents = {} => calls.basic = 1
  /\ pc = "complete" => calls.completion = 0

\* C24: the stages of a request run one after the other: the embedding call
\* is issued only after the analysis invocation has returned or failed, each
\* retrieval strategy only after the one before it has returned, the
\* completion call only after retrieval has finished, and no step of the
\* handler issues more than one call.
C24_StagesSequential ==
  /\ []StagesInOrder
  /\ [][CallsMade' <= CallsMade + 1]_vars

\* a request that went through the analysis, all three strategies and the
\* completion call
C24_Witness ==
  /\ calls.nlp = 1 /\ calls.embedding = 1 /\ calls.vector = 1
  /\ calls.enhanced = 1 /\ calls.basic = 1 /\ calls.completion = 1
  /\ completion = "ok"

\* C25: when retrieval is over, the enhanced text search has run exactly
\* when the vector search gave no document (it missed, failed or was skipped)
\* and an analysis was present; the basic text search has run exactly when
\* in addition the enhanced search gave no document (it missed, failed or
\* was skipped); and no strategy has run twice.
C25_StrategySelection ==
  RetrievalDone =>
    /\ calls.vector <= 1 /\ calls.enhanced <= 1 /\ calls.basic <= 1
    /\ calls.enhanced = 1 <=> (vectorDocs = {} /\ nlpAnalysis # <<>>)
    /\ calls.basic = 1 <=> (vectorDocs = {} /\ outcomes.enhanced # "rows")

\* the vector search missed and the enhanced search found documents: the
\* basic search did not run
C25_Witness ==
  /\ pc = "complete"
  /\ outcomes.vector = "empty"
  /\ outcomes.enhanced = "rows"
  /\ calls.basic = 0

C28_EnhancedResultMatchesTerm ==
  (searchMethod = "enhanced_text" /\ nlpAnalysis # <<>>) =>
    \A i \in documents :
      Textual(store[i]) =>
        \E k \in 1..Len(searchTerms(nlpAnalysis[1])) :
          TermMatches(store[i], searchTerms(nlpAnalysis[1])[k])

------------------------------------------------------------------------------
(* Properties of the request checks, the analysis step, the completion call *)
(* and the persistence step.                                                *)

\* C13 (as claimed): once the nlp-processor invocation has been made, the
\* handler goes on to retrieval whatever the invocation did: the request
\* does not end before the embedding call.
C13_AnalysisFailureNotFatal ==
  (pc = "done" /\ calls.nlp > 0) => calls.embedding > 0

\* C14: a completion response that is not ok ends the request: the
\* completion call was made exactly once, the response is an error with a
\* message, and no conversation or message insert was made.
C14_CompletionFailureFatal ==
  /\ calls.completion <= 1
  /\ completion = "not_ok" =>
       /\ calls.completion = 1
       /\ pc = "done"
       /\ response = "error"
       /\ errorMessage # ""
       /\ calls.persist = 0
       /\ conversations = StoredConversations
       /\ messages = {}

\* retrieval had found documents when the completion service answered not ok
C14_Witness ==
  /\ completion = "not_ok"
  /\ documents # {}
  /\ pc = "done"

\* C15: a conversation or message insert is made only after the analysis
\* step, the retrieval cascade and the completion call have all run, the
\* completion call with an ok response; a request that ends in an error
\* before that has made no insert.
C15_PersistOnlyAfterPipeline ==
  /\ calls.persist > 0 =>
       /\ calls.nlp = 1
       /\ calls.embedding = 1
       /\ calls.completion = 1
       /\ completion = "ok"
  /\ (response = "error" /\ completion # "ok") =>
       /\ calls.persist = 0
       /\ conversations = StoredConversations
       /\ messages = {}

\* the inserts were made for a request whose analysis had failed and whose
\* retrieval went through all three strategies
C15_Witness ==
  /\ pc = "done"
  /\ calls.persist = 3
  /\ Cardinality(messages) = 2
  /\ nlpAnalysis = <<>>
  /\ calls.basic = 1

\* no call of the pipeline has been made
NoPipelineCalls ==
  /\ calls.nlp = 0
  /\ calls.embedding = 0
  /\ calls.vector = 0
  /\ calls.enhanced = 0
  /\ calls.basic = 0
  /\ calls.completion = 0
  /\ calls.persist = 0

\* the request cannot pass the checks: no Authorization header, no message,
\* or a token that getUser did not resolve
Rejected ==
  \/ ~request.authHeader
  \/ request.message = ""
  \/ calls.auth > 0 /\ user = NoUser

\* C16: a request without an Authorization header, with a token that does
\* not resolve to a user, or without a message ends with an error response
\* that carries a message, and no analysis, embedding, search, completion or
\* persistence call is made for it.
C16_InvalidRequestRejected ==
  Rejected =>
    /\ NoPipelineCalls
    /\ pc = "done" => response \in {"error", "cors"}
    /\ response = "error" => errorMessage # ""

\* a request with a valid token and no message has been turned down
C16_Witness ==
  /\ pc = "done"
  /\ request.authHeader
  /\ request.message = ""
  /\ calls.auth = 1
  /\ errorMessage = "Message is required"

------------------------------------------------------------------------------
(* Properties of the conversation and message inserts.                      *)

\* the owner of a conversation row
OwnerOf(conversation_id) ==
  {c.user_id : c \in {d \in conversations : d.id = conversation_id}}

\* C29 (as claimed): a success response implies that the user message and
\* the bot message, the latter with the sources and the confidence of the
\* response, are rows of the conversation the response names.
C29_SuccessImpliesPersisted ==
  response = "ok" =>
    /\ [conversation_id |-> currentConversationId, type |-> "user",
        user_id |-> user] \in messages
    /\ [conversation_id |-> currentConversationId, type |-> "bot",
        user_id |-> user, sources |-> documents,
        confidence |-> confidence] \in messages

\* C30: every message row inserted for the request is in a conversation
\* owned by the caller, and a conversation row is created, owned by the
\* caller, only for a request without a conversationId.
C30_MessagesOnlyInOwnConversation ==
  /\ \A m \in messages : OwnerOf(m.conversation_id) = {user}
  /\ conversations # StoredConversations =>
       /\ request.conversationId = ""
       /\ conversations
            = StoredConversations
                \cup {[id |-> NewConversationId, user_id |-> user]}

\* the request named a conversation of another user: both inserts were
\* attempted and turned down, and the handler answered
C30_Witness ==
  /\ pc = "done"
  /\ response = "ok"
  /\ request.conversationId # ""
  /\ OwnerOf(request.conversationId) # {user}
  /\ calls.persist = 2
  /\ messages = {}

------------------------------------------------------------------------------
(* nlp-processor: the classifier applied to each bounded text.              *)

\* the chat handler takes no part
HandlerIdle ==
  /\ request = [authHeader |-> FALSE, message |-> "", conversationId |-> ""]
  /\ pc = "idle"
  /\ user = NoUser
  /\ nlpAnalysis = <<>>
  /\ vectorDocs = {}
  /\ documents = {}
  /\ searchMethod = "fallback"
  /\ confidence = BaseConfidence
  /\ embedding = "none"
  /\ completion = "none"
  /\ outcomes = NoOutcomes
  /\ calls = NoCalls
  /\ response = "none"
  /\ errorMessage = ""
  /\ conversations = StoredConversations
  /\ messages = {}
  /\ currentConversationId = ""

ChatIdle ==
  /\ store = <<>>
  /\ HandlerIdle
  /\ DocsIdle

NlpInitAll == NlpInit /\ ChatIdle

NlpNext == Classify /\ UNCHANGED <<chatVars, docVars>>

NlpSpec == NlpInitAll /\ [][NlpNext]_vars

------------------------------------------------------------------------------
(* Properties of the intent classifier.                                     *)

\* the intents with at least one trigger phrase occurring in the text
MatchedIntents ==
  {k \in DOMAIN Intents : MatchCount(toLowerCase(text), Intents[k]) > 0}

\* C6 (as claimed): a text with trigger phrases of exactly one intent is
\* classified as that intent, with a confidence above 0 and at most the
\* fraction of that intent's phrases that matched.
C6_SingleCategoryClassified ==
  (intentResult # <<>> /\ Cardinality(MatchedIntents) = 1) =>
    LET k == CHOOSE j \in MatchedIntents : TRUE
        r == intentResult[1]
    IN  /\ r.intent = Intents[k]
        /\ RatLt(Rat(0, 1), r.confidence)
        /\ RatLe(r.confidence,
                 Rat(MatchCount(toLowerCase(text), Intents[k]),
                     Len(intentPatterns[Intents[k]])))

\* C7: a text with no trigger phrase of any intent is classified
\* general_question with confidence exactly 0.3.
C7_NoPhraseIsGeneralQuestion ==
  (intentResult # <<>> /\ MatchedIntents = {}) =>
    /\ intentResult[1].intent = "general_question"
    /\ RatEq(intentResult[1].confidence, Rat(3, 10))

\* a non-empty text without any trigger phrase has been classified
C7_Witness ==
  /\ intentResult # <<>>
  /\ Len(text) > 0
  /\ MatchedIntents = {}

------------------------------------------------------------------------------
(* nlp-processor: extractKeywords, extractSearchFilters and                 *)
(* performAdvancedNLP applied to each bounded text, one call per behaviour. *)

MaxPieces == 2

\* pieces with punctuation, capitals, digits, an underscore, stop words,
\* short words, vocabulary terms and timeframe expressions
Pieces ==
  {"The RFP, ", "it's ", "Healthcare ", "cloud_ops ", "in 2024 ",
   "Last  year ", "Acme Corp ", "a.b "}

RECURSIVE PieceTexts(_)
PieceTexts(n) ==
  IF n = 0 THEN {""}
  ELSE LET shorter == PieceTexts(n - 1)
       IN  shorter \cup {t \o p : t \in shorter, p \in Pieces}

\* an entity list as a language model may give it
LooseEntities == <<"Healthcare", "AWS", "Acme", "Case Study", "cloud">>

AnalyzerInit ==
  /\ text \in PieceTexts(MaxPieces)
  /\ NoResults
  /\ ChatIdle

\* const keywords = extractKeywords(text)
ExtractKeywords ==
  /\ NoResults
  /\ keywordsResult' = <<extractKeywords(text)>>
  /\ UNCHANGED <<text, intentResult, entitiesResult, filtersResult,
                 analysisResult>>

\* const entities = extractEntities(text)
ExtractEntities ==
  /\ NoResults
  /\ entitiesResult' = <<extractEntities(text)>>
  /\ UNCHANGED <<text, intentResult, keywordsResult, filtersResult,
                 analysisResult>>

\* const searchFilters = extractSearchFilters(text, entities), for the
\* entities of the text, for no entity and for a list of any origin
ExtractSearchFilters ==
  /\ NoResults
  /\ \E entities \in {extractEntities(text), <<>>, LooseEntities} :
       filtersResult' =
         <<[entities |-> entities,
            filters |-> extractSearchFilters(text, entities)]>>
  /\ UNCHANGED <<text, intentResult, keywordsResult, entitiesResult,
                 analysisResult>>

\* const analysis = await performAdvancedNLP(text)
PerformAdvancedNLP ==
  /\ NoResults
  /\ \E reply \in DelegateReplies :
       analysisResult' =
         <<[reply |-> reply, analysis |-> performAdvancedNLP(text, reply)]>>
  /\ UNCHANGED <<text, intentResult, keywordsResult, entitiesResult,
                 filtersResult>>

AnalyzerNext ==
  \/ ExtractKeywords /\ UNCHANGED <<chatVars, docVars>>
  \/ ExtractEntities /\ UNCHANGED <<chatVars, docVars>>
  \/ ExtractSearchFilters /\ UNCHANGED <<chatVars, docVars>>
  \/ PerformAdvancedNLP /\ UNCHANGED <<chatVars, docVars>>

AnalyzerSpec == AnalyzerInit /\ [][AnalyzerNext]_vars

------------------------------------------------------------------------------
(* Properties of the analyzer functions.                                    *)

AnalysisFields ==
  {"intent", "confidence", "keywords", "entities", "queryType",
   "searchFilters"}

\* C12: performAdvancedNLP never raises: for every text and every reply of
\* the language model it returns an analysis object, and when the reply is
\* not a usable one (the fetch rejects, the status is not ok, the body or the
\* content does not parse, the content is null) the object is the one of the
\* rule-based pipeline: keywords, entities, intent and filters of the text.
C12_AnalyzerNeverRaises ==
  analysisResult # <<>> =>
    LET reply == analysisResult[1].reply
        analysis == analysisResult[1].analysis
    IN  /\ analysis # Raised
        /\ DOMAIN analysis = AnalysisFields
        /\ reply.kind # "json_object" =>
             /\ analysis.keywords = extractKeywords(text)
             /\ analysis.entities = extractEntities(text)
             /\ analysis.intent = classifyIntent(text).intent
             /\ analysis.queryType = analysis.intent
             /\ analysis.confidence = classifyIntent(text).confidence
             /\ analysis.searchFilters
                  = extractSearchFilters(text, extractEntities(text))

\* the content of the reply was not JSON, and the rule-based analysis of a
\* text with keywords and entities came back
C12_Witness ==
  /\ analysisResult # <<>>
  /\ analysisResult[1].reply.kind = "not_json"
  /\ analysisResult[1].analysis # Raised
  /\ Len(analysisResult[1].analysis.keywords) > 0
  /\ Len(analysisResult[1].analysis.entities) > 0

ListFilters == {"industries", "technologies", "documentTypes"}

\* C19: each of industries, technologies, documentTypes and timeframe is
\* absent from the derived filters when nothing matched, and no list field
\* is present and empty; a list field that is present holds exactly the
\* entities that equal, letter case ignored, a term of its vocabulary.
C19_FiltersAbsentWhenEmpty ==
  filtersResult # <<>> =>
    LET entities == filtersResult[1].entities
        filters == filtersResult[1].filters
    IN  /\ DOMAIN filters \subseteq ListFilters \cup {"timeframe"}
        /\ \A name \in ListFilters :
             /\ Has(filters, name) <=>
                  \E k \in 1..Len(entities) : IsTermOf(name, entities[k])
             /\ Has(filters, name) =>
                  /\ Len(filters[name]) > 0
                  /\ \A k \in 1..Len(entities) :
                       InSeq(entities[k], filters[name])
                         <=> IsTermOf(name, entities[k])
                  /\ \A k \in 1..Len(filters[name]) :
                       InSeq(filters[name][k], entities)
        /\ Has(filters, "timeframe") <=> TimeMatchFrom(text, 1) # <<>>
        /\ Has(filters, "timeframe") => Len(filters.timeframe) > 0

\* filters derived from entities none of which is a technology or a
\* document type, for a text without a timeframe: only industries is present
C19_Witness ==
  /\ filtersResult # <<>>
  /\ Len(filtersResult[1].entities) > 0
  /\ DOMAIN filtersResult[1].filters = {"industries"}

\* C20: extracting the keywords of the space-joined keywords of a text gives
\* the same keywords again, in the same order and with the same repetitions.
C20_KeywordsIdempotent ==
  keywordsResult # <<>> =>
    extractKeywords(join(keywordsResult[1], " ")) = keywordsResult[1]

\* the keywords of a text with punctuation and a repeated word
C20_Witness ==
  /\ keywordsResult # <<>>
  /\ Len(keywordsResult[1]) >= 2
  /\ keywordsResult[1][1] = keywordsResult[1][2]
  /\ join(keywordsResult[1], " ") # text

\* the number of positions of a sequence that hold x
Occurrences(x, s) == Cardinality({k \in 1..Len(s) : s[k] = x})

\* C21: every term of the three vocabularies whose lower-cased form occurs
\* in the lower-cased text is in the entity list exactly once; so is every
\* capitalized run the proper-noun heuristic keeps; and the list holds
\* nothing else.
C21_EntitiesComplete ==
  entitiesResult # <<>> =>
    LET entities == entitiesResult[1]
        proper == SelectSeq(capitalizedWords(text), KeepCapitalized)
    IN  /\ \A k \in 1..Len(AllDomainKeywords) :
             includes(toLowerCase(text), toLowerCase(AllDomainKeywords[k]))
               => Occurrences(AllDomainKeywords[k], entities) = 1
        /\ \A k \in 1..Len(proper) : Occurrences(proper[k], entities) = 1
        /\ \A k \in 1..Len(entities) :
             \/ /\ InSeq(entities[k], AllDomainKeywords)
                /\ includes(toLowerCase(text), toLowerCase(entities[k]))
             \/ InSeq(entities[k], proper)

\* the entities of a text that names a vocabulary term with a capital letter
\* and then a company: the term and the capitalized run of the three words
C21_Witness ==
  /\ entitiesResult # <<>>
  /\ ~includes(text, "healthcare")
  /\ entitiesResult[1] = <<"healthcare", "Healthcare Acme Corp">>

\* the intents of the closed enumeration
QueryIntents ==
  {"information_retrieval", "comparison", "summarization", "specific_search",
   "general_question"}

\* C22 (as claimed): every analysis performAdvancedNLP returns, on the
\* language-model path and on the rule-based path, has an intent of the
\* closed enumeration and a confidence between 0 and 1.
C22_AnalysisWellFormed ==
  (analysisResult # <<>> /\ analysisResult[1].analysis # Raised) =>
    /\ analysisResult[1].analysis.intent \in QueryIntents
    /\ RatLe(Rat(0, 1), analysisResult[1].analysis.confidence)
    /\ RatLe(analysisResult[1].analysis.confidence, Rat(1, 1))

------------------------------------------------------------------------------
(* upload-document and generate-embeddings                                  *)
(* (src/supabase/functions/upload-document/index.ts): one upload request    *)
(* and up to MaxRuns backfill requests, interleaved at their awaited calls, *)
(* over a table of uploaded documents.  An embedding is known by its        *)
(* similarity to the query, as in the rows of the table.                    *)

MaxRuns == 2

Runs == 1..MaxRuns

\* the form fields of the upload requests: a complete form, and one without
\* a title
UploadForms ==
  {[title |-> "Azure Migration Proposal", type |-> "Proposal",
    client |-> "Acme", industry |-> "Finance",
    content |-> "Plan to move the ledger to Azure"],
   [title |-> "", type |-> "Proposal", client |-> "Acme",
    industry |-> "Finance", content |-> "Plan to move the ledger to Azure"]}

\* the embeddings the embedding service may answer with
ServiceEmbeddings == {30, 60}

\* the rows of S in the order of their ids
RECURSIVE InOrder(_)
InOrder(S) ==
  IF S = {} THEN <<>>
  ELSE LET least == CHOOSE i \in S : \A j \in S : i <= j
       IN  <<least>> \o InOrder(S \ {least})

UploadStart(form) ==
  [pc |-> "start", form |-> form, user |-> NoUser, embedOutcome |-> "none",
   embedding |-> <<>>, failedAt |-> "", response |-> <<>>]

RunStart ==
  [pc |-> "start", user |-> NoUser, fetched |-> <<>>, k |-> 0,
   embedding |-> <<>>, processed |-> 0, errors |-> 0, total |-> 0,
   response |-> "none"]

DocsInit ==
  /\ store \in TextTables
  /\ upload \in {UploadStart(form) : form \in UploadForms}
  /\ runs = [r \in Runs |-> RunStart]
  /\ HandlerIdle
  /\ text = ""
  /\ NoResults

\* the catch of upload-document: { error: error.message } with status 500
UploadFailed(at) ==
  [upload EXCEPT !.pc = "done", !.failedAt = at,
                 !.response = [status |-> "error"]]

\* the API key check, the Authorization header check and auth.getUser
UploadAuthenticate ==
  /\ upload.pc = "start"
  /\ \E u \in {Users[i] : i \in DOMAIN Users} \cup {NoUser} :
       upload' = IF u = NoUser THEN UploadFailed("auth")
                 ELSE [upload EXCEPT !.pc = "form", !.user = u]
  /\ UNCHANGED <<store, runs>>

\* req.formData() and the checks of file, title, type, client and industry;
\* then storage.from('documents').upload(fileName, file); uploadError is
\* thrown
UploadFile ==
  /\ upload.pc = "form"
  /\ \/ /\ upload.form.title = ""
        /\ upload' = UploadFailed("form")
     \/ /\ upload.form.title # ""
        /\ upload' = UploadFailed("storage")
     \/ /\ upload.form.title # ""
        /\ upload' = [upload EXCEPT !.pc = "embed"]
  /\ UNCHANGED <<store, runs>>

\* an embedding call that throws ends the upload
UploadEmbeddingFatalOnThrow(outcome) == outcome = "throws"

\* try { fetch embeddings; if (ok) embedding = ...; else log } catch { log }:
\* no outcome of the embedding call ends the upload
UploadEmbeddingFatal(outcome) == FALSE

\* the embedding call of the upload; embedding stays null unless it answered
UploadEmbed ==
  /\ upload.pc = "embed"
  /\ \E outcome \in {"ok", "not_ok", "throws"}, e \in ServiceEmbeddings :
       upload' =
         IF UploadEmbeddingFatal(outcome)
         THEN [UploadFailed("embed") EXCEPT !.embedOutcome = outcome]
         ELSE [upload EXCEPT
                 !.pc = "insert",
                 !.embedOutcome = outcome,
                 !.embedding = IF outcome = "ok" THEN <<e>> ELSE <<>>]
  /\ UNCHANGED <<store, runs>>

\* the row of the insert: summary and content from the text, embeddings the
\* embedding or null
UploadedRow ==
  Uploaded(upload.user, upload.embedding # <<>>,
           IF upload.embedding # <<>> THEN upload.embedding[1] ELSE 0,
           upload.form.title, upload.form.type, upload.form.client,
           upload.form.industry, upload.form.content)

\* from('documents').insert({...}).select().single(); dbError is thrown;
\* then the response with document.hasEmbedding = !!embedding
UploadInsert ==
  /\ upload.pc = "insert"
  /\ \/ /\ upload' = UploadFailed("insert")
        /\ UNCHANGED store
     \/ /\ store' = Append(store, UploadedRow)
        /\ upload' =
             [upload EXCEPT
                !.pc = "done",
                !.response = [status |-> "ok", id |-> Len(store) + 1,
                              hasEmbedding |-> upload.embedding # <<>>]]
  /\ UNCHANGED runs

\* the catch of generate-embeddings: { error: error.message } with status 500
RunFailed(r) == [runs EXCEPT ![r].pc = "done", ![r].response = "error"]

\* the Authorization header check and auth.getUser of generate-embeddings
BackfillAuthenticate(r) ==
  /\ runs[r].pc = "start"
  /\ \E u \in {Users[i] : i \in DOMAIN Users} \cup {NoUser} :
       runs' = IF u = NoUser THEN RunFailed(r)
               ELSE [runs EXCEPT ![r].pc = "fetch", ![r].user = u]
  /\ UNCHANGED <<store, upload>>

\* from('documents').select('id, title, summary, content').is('embeddings',
\* null), under the caller's row-level security; fetchError is thrown; no row:
\* the response { message: 'All documents already have embeddings' }
BackfillFetch(r) ==
  /\ runs[r].pc = "fetch"
  /\ \/ runs' = RunFailed(r)
     \/ LET rows == InOrder({i \in RlsVisible(runs[r].user) :
                               ~store[i].hasEmbedding})
        IN  runs' =
              IF rows = <<>>
              THEN [runs EXCEPT ![r].pc = "done", ![r].response = "nothing"]
              ELSE [runs EXCEPT ![r].pc = "embed", ![r].fetched = rows,
                                ![r].total = Len(rows), ![r].k = 1]
  /\ UNCHANGED <<store, upload>>

\* the end of one iteration of `for (const doc of documents)`: the next
\* document, or the response { processed, errors, total } after the last
NextDocument(run) ==
  IF run.k < Len(run.fetched)
  THEN [run EXCEPT !.pc = "embed", !.k = run.k + 1, !.embedding = <<>>]
  ELSE [run EXCEPT !.pc = "done", !.embedding = <<>>,
                   !.response = "complete"]

\* [doc.title, doc.summary || '', doc.content || ''].filter(Boolean) is empty
NothingToEmbed(row) == row.title = "" /\ row.summary = "" /\ row.content = ""

\* the embedding call for documents[k]: a document without text is skipped
\* and counted nowhere; a response that is not ok, or a throw, counts an error
BackfillEmbed(r) ==
  /\ runs[r].pc = "embed"
  /\ IF NothingToEmbed(store[runs[r].fetched[runs[r].k]])
     THEN runs' = [runs EXCEPT ![r] = NextDocument(runs[r])]
     ELSE \/ runs' =
               [runs EXCEPT
                  ![r] = NextDocument([runs[r] EXCEPT !.errors = @ + 1])]
          \/ \E e \in ServiceEmbeddings :
               runs' = [runs EXCEPT ![r].pc = "update",
                                    ![r].embedding = <<e>>]
  /\ UNCHANGED <<store, upload>>

\* from('documents').update({ embeddings: embedding }).eq('id', doc.id)
BackfillUpdateRow(row, e) == [row EXCEPT !.hasEmbedding = TRUE, !.sim = e]

\* the update of documents[k]: updateError counts an error, otherwise the row
\* is written and processed is incremented
BackfillUpdate(r) ==
  /\ runs[r].pc = "update"
  /\ \/ /\ runs' = [runs EXCEPT
                      ![r] = NextDocument([runs[r] EXCEPT !.errors = @ + 1])]
        /\ UNCHANGED store
     \/ LET id == runs[r].fetched[runs[r].k]
        IN  /\ store' =
                 [store EXCEPT
                    ![id] = BackfillUpdateRow(store[id], runs[r].embedding[1])]
            /\ runs' =
                 [runs EXCEPT
                    ![r] = NextDocument([runs[r] EXCEPT !.processed = @ + 1])]
  /\ UNCHANGED upload

\* the variables of the chat-ai handler other than the documents table
handlerVars ==
  <<request, pc, user, nlpAnalysis, vectorDocs, documents, searchMethod,
    confidence, embedding, completion, outcomes, calls, response,
    errorMessage, conversations, messages, currentConversationId>>

DocsNext ==
  \/ UploadAuthenticate /\ UNCHANGED <<handlerVars, nlpVars>>
  \/ UploadFile /\ UNCHANGED <<handlerVars, nlpVars>>
  \/ UploadEmbed /\ UNCHANGED <<handlerVars, nlpVars>>
  \/ UploadInsert /\ UNCHANGED <<handlerVars, nlpVars>>
  \/ \E r \in Runs :
       BackfillAuthenticate(r) /\ UNCHANGED <<handlerVars, nlpVars>>
  \/ \E r \in Runs : BackfillFetch(r) /\ UNCHANGED <<handlerVars, nlpVars>>
  \/ \E r \in Runs : BackfillEmbed(r) /\ UNCHANGED <<handlerVars, nlpVars>>
  \/ \E r \in Runs : BackfillUpdate(r) /\ UNCHANGED <<handlerVars, nlpVars>>

DocsSpec == DocsInit /\ [][DocsNext]_vars

------------------------------------------------------------------------------
(* Properties of the upload and of the embedding backfill                   *)

\* the search term of a text search for the uploaded document
UploadSearchTerm == "azure"

\* the rows an upload can store, without their embedding, that the filter of
\* the basic text search selects for UploadSearchTerm
FindableRows ==
  {row \in {Uploaded(Users[u], FALSE, 0, form.title, form.type, form.client,
                     form.industry, form.content) :
              u \in DOMAIN Users, form \in UploadForms} :
     BasicMatches(row, UploadSearchTerm)}

WithoutEmbedding(row) == [row EXCEPT !.hasEmbedding = FALSE, !.sim = 0]

UploadEmbeddingFailed == upload.embedOutcome \in {"not_ok", "throws"}

\* C23: when the embedding call of upload-document answers with a
\* non-success status or throws, the upload does not fail because of it, the
\* row is inserted with a null embedding, the response says hasEmbedding =
\* false, and the row is selected by a text search of its owner
C23_UploadEmbeddingBestEffort ==
  /\ [](UploadEmbeddingFailed =>
          /\ upload.embedding = <<>>
          /\ upload.failedAt \in {"", "insert"}
          /\ upload.pc = "done" /\ upload.failedAt = "" =>
               /\ upload.response.status = "ok"
               /\ upload.response.hasEmbedding = FALSE
               /\ upload.response.id \in RlsVisible(upload.user)
               /\ WithoutEmbedding(store[upload.response.id]) \in FindableRows)
  /\ [][UploadEmbeddingFailed /\ upload.pc = "insert" /\ upload'.pc = "done"
          /\ upload'.failedAt = "" =>
            /\ Len(store') = Len(store) + 1
            /\ store'[Len(store')].hasEmbedding = FALSE
            /\ store'[Len(store')].owner = upload.user
            /\ SubSeq(store', 1, Len(store)) = store]_vars

C23_Witness ==
  /\ upload.pc = "done"
  /\ upload.embedOutcome = "throws"
  /\ upload.failedAt = ""
  /\ upload.response.status = "ok"
  /\ upload.response.hasEmbedding = FALSE
  /\ store[upload.response.id].hasEmbedding = FALSE
  /\ WithoutEmbedding(store[upload.response.id]) \in FindableRows

\* C26: in every step of any interleaving of an upload and the backfill runs,
\* a row whose embedding is non-null keeps it, a row changes in nothing but
\* its embedding, and in every run processed + errors is at most the number
\* of rows fetched
C26_EmbeddingsOnlyBackfilledFromNull ==
  /\ [][\A i \in DOMAIN store :
          /\ store[i].hasEmbedding => store'[i] = store[i]
          /\ WithoutEmbedding(store'[i]) = WithoutEmbedding(store[i])]_vars
  /\ [](\A r \in Runs :
          runs[r].processed + runs[r].errors <= Len(runs[r].fetched))

====
